---------------------------- MODULE Spec2Model ----------------------------
(***************************************************************************)
(* erz: the structured error value (Er), its copy-on-write mutators, the   *)
(* validation collector and the HTTP / gRPC projections.                   *)
(*                                                                         *)
(* An *Er is a cell of `heap`; a Go slice is a header (arr, len, cap) over *)
(* a backing array held in `mem`, so that two headers over one array share *)
(* storage exactly as they do in Go.                                       *)
(***************************************************************************)
EXTENDS Integers, Sequences, FiniteSets, TLC

VARIABLES heap, mem, snap, last, wire, vc, adds

vars == <<heap, mem, snap, last, wire, vc, adds>>

(***************************************************************************)
(* Bounds of the model.                                                    *)
(***************************************************************************)
MaxHeap == 3
MaxList == 2
MaxSpare == 1
MaxFrames == 2
MaxWireHeap == 2
MaxAdds == 4

(***************************************************************************)
(* Code registry.                                                          *)
(***************************************************************************)
CodeUnknown == "UNKNOWN"
CodeInvalidInput == "INVALID_INPUT"
CodeNotFound == "NOT_FOUND"
CodeAlreadyExists == "ALREADY_EXISTS"
CodePermissionDenied == "PERMISSION_DENIED"
CodeUnauthenticated == "UNAUTHENTICATED"
CodeInternal == "INTERNAL"
CodeUnavailable == "UNAVAILABLE"
CodeTimeout == "TIMEOUT"
CodeResourceExhausted == "RESOURCE_EXHAUSTED"
CodeValidation == "VALIDATION"

RegistryCodes ==
  { CodeUnknown, CodeInvalidInput, CodeNotFound, CodeAlreadyExists,
    CodePermissionDenied, CodeUnauthenticated, CodeInternal, CodeUnavailable,
    CodeTimeout, CodeResourceExhausted, CodeValidation }

\* ErrorCode is a string type: a caller may pass a code outside the registry.
ErrorCode == RegistryCodes \cup {"TEAPOT"}

defaultPublicMessages ==
  [c \in RegistryCodes |->
     CASE c = CodeUnknown -> "An unexpected error occurred"
       [] c = CodeInvalidInput -> "Invalid input provided"
       [] c = CodeNotFound -> "Resource not found"
       [] c = CodeAlreadyExists -> "Resource already exists"
       [] c = CodePermissionDenied -> "Permission denied"
       [] c = CodeUnauthenticated -> "Authentication required"
       [] c = CodeInternal -> "Internal server error"
       [] c = CodeUnavailable -> "Service temporarily unavailable"
       [] c = CodeTimeout -> "Request timeout"
       [] c = CodeResourceExhausted -> "Rate limit exceeded"
       [] c = CodeValidation -> "Validation failed"]

(***************************************************************************)
(* Inputs.                                                                 *)
(***************************************************************************)
\* A Go string is any sequence of bytes: BadText stands for one that is not
\* valid UTF-8 (such as "\\xff"), which a proto3 string field cannot carry.
BadText == "<0xFF>"

Messages == {"", "boom"}
Details == {"", "row 7", BadText}
PublicMessages == {"", "Try again"}

\* Value "nil" is the absent opaque value.
EmailRequired == [Field |-> "email", Message |-> "required", Value |-> "nil"]
AgeTooLow == [Field |-> "age", Message |-> "must be >= 18", Value |-> "12"]

ValidationError == {EmailRequired, AgeTooLow}

ZeroValidationError == [Field |-> "", Message |-> "", Value |-> "nil"]

\* A cause is an opaque error: its dynamic type and the text of its Error().
\* NilError is the nil error.
NilError == [type |-> "nil", text |-> ""]

ErrEOF == [type |-> "io.EOF", text |-> "EOF"]
ErrTimeout == [type |-> "net.OpError", text |-> "timeout"]

Causes == {NilError, ErrEOF, ErrTimeout}

ZeroStackFrame == [Function |-> <<>>, File |-> <<>>, Line |-> 0]

\* A string that is formatted or parsed is a sequence of characters.
FrameRun == [Function |-> <<"f", ".", "R">>, File |-> <<"m", ".", "g", "o">>, Line |-> 12]
FrameGet == [Function |-> <<"g">>, File |-> <<"s", ".", "g", "o">>, Line |-> 7]

StackFrame == {FrameRun, FrameGet}

RECURSIVE SeqsUpTo(_, _)
SeqsUpTo(S, n) ==
  IF n = 0 THEN {<<>>}
  ELSE LET shorter == SeqsUpTo(S, n - 1)
       IN shorter \cup {Append(s, x) : s \in {t \in shorter : Len(t) = n - 1}, x \in S}

\* a, b, a, ... of length n.
Alternate(a, b, n) == [i \in 1..n |-> IF i % 2 = 1 THEN a ELSE b]

\* The lists of validation failures, the call chains and the cause lists
\* the projected values are built from.
ValidationLists ==
  {Alternate(p[1], p[2], k) :
     p \in {q \in ValidationError \X ValidationError : q[1] # q[2]}, k \in 0..MaxList}

CallChains == {Alternate(FrameRun, FrameGet, k) : k \in 0..MaxFrames}

\* A frame of a file whose base name has a space in it, and the call chains
\* of the values projected to a status.
FrameSpaced == [Function |-> <<"h">>, File |-> <<"a", " ", "b">>, Line |-> 5]

WireChains == CallChains \cup {<<FrameSpaced>>, <<FrameRun, FrameSpaced>>}

CauseLists == {Alternate(ErrEOF, ErrTimeout, k) : k \in 0..MaxList} \cup {<<NilError>>}

(***************************************************************************)
(* Go slices.                                                              *)
(***************************************************************************)
NilSlice == [arr |-> 0, len |-> 0, cap |-> 0]

\* The elements a slice header shows: s[0:len(s)].
Elems(m, s) == IF s.len = 0 THEN <<>> ELSE SubSeq(m[s.arr], 1, s.len)

Fill(z, n) == [i \in 1..n |-> z]

\* make([]T, n) followed by copy(dst, src): a fresh array, cap = len = n.
MakeCopy(m, s) ==
  [mem |-> Append(m, Elems(m, s)),
   slice |-> [arr |-> Len(m) + 1, len |-> s.len, cap |-> s.len]]

\* The capacity a growing append allocates (below the 256-element threshold).
GrowCap(oldCap, needed) == IF needed > 2 * oldCap THEN needed ELSE 2 * oldCap

\* append(s, xs...): in place when the capacity suffices, else a new array.
GoAppend(m, s, xs, z) ==
  LET n == Len(xs)
      need == s.len + n
  IN IF n = 0 THEN [mem |-> m, slice |-> s]
     ELSE IF need <= s.cap
     THEN [mem |-> [m EXCEPT ![s.arr] =
                      [i \in 1..Len(@) |->
                         IF i > s.len /\ i <= need THEN xs[i - s.len] ELSE @[i]]],
           slice |-> [s EXCEPT !.len = need]]
     ELSE LET c == GrowCap(s.cap, need)
          IN [mem |-> Append(m, Elems(m, s) \o xs \o Fill(z, c - need)),
              slice |-> [arr |-> Len(m) + 1, len |-> need, cap |-> c]]

\* A loop of single-element appends: s = append(s, x) for each x of xs.
RECURSIVE GoAppendEach(_, _, _, _)
GoAppendEach(m, s, xs, z) ==
  IF Len(xs) = 0 THEN [mem |-> m, slice |-> s]
  ELSE LET a == GoAppend(m, s, <<Head(xs)>>, z)
       IN GoAppendEach(a.mem, a.slice, Tail(xs), z)

\* A slice literal []T{x1, ..., xn}, or nil when a caller passes none.
Literal(m, xs) ==
  IF Len(xs) = 0 THEN [mem |-> m, slice |-> NilSlice]
  ELSE [mem |-> Append(m, xs),
        slice |-> [arr |-> Len(m) + 1, len |-> Len(xs), cap |-> Len(xs)]]

\* A caller's slice: xs followed by `spare` unused cells of capacity
\* (make([]T, 0, k), or buf[:0] of a reused buffer).
CallerSlice(m, xs, spare, z) ==
  IF Len(xs) + spare = 0 THEN [mem |-> m, slice |-> NilSlice]
  ELSE [mem |-> Append(m, xs \o Fill(z, spare)),
        slice |-> [arr |-> Len(m) + 1, len |-> Len(xs), cap |-> Len(xs) + spare]]

(***************************************************************************)
(* The error value and its accessors.                                      *)
(***************************************************************************)
Er(code, message) ==
  [ErrCode |-> code, Message |-> message, Detail |-> "", PublicMessage |-> "",
   Wrapped |-> NilSlice, ValidationErrors |-> NilSlice, StackTrace |-> NilSlice]

Code(e) == e.ErrCode
GetMessage(e) == e.Message
GetDetail(e) == e.Detail
GetStackTrace(m, e) == Elems(m, e.StackTrace)
GetValidationErrors(m, e) == Elems(m, e.ValidationErrors)
GetWrapped(m, e) == Elems(m, e.Wrapped)

Error(e) == IF e.Message # "" THEN e.Message ELSE e.ErrCode

\* A PublicError that reads the registry without the UNKNOWN fallback.
PublicErrorNoFallback(e) ==
  IF e.PublicMessage # "" THEN e.PublicMessage
  ELSE IF e.ErrCode \in DOMAIN defaultPublicMessages
       THEN defaultPublicMessages[e.ErrCode]
       ELSE ""

PublicError(e) ==
  IF e.PublicMessage # "" THEN e.PublicMessage
  ELSE IF e.ErrCode \in DOMAIN defaultPublicMessages
       THEN defaultPublicMessages[e.ErrCode]
       ELSE defaultPublicMessages[CodeUnknown]

\* An Unwrap that returns the cause added last.
UnwrapLast(m, e) == IF e.Wrapped.len > 0 THEN m[e.Wrapped.arr][e.Wrapped.len] ELSE NilError

\* Unwrap: the head of the cause sequence, nil when there is none.
Unwrap(m, e) == IF e.Wrapped.len > 0 THEN m[e.Wrapped.arr][1] ELSE NilError

\* What every accessor of a value returns.
View(m, e) ==
  [Code |-> Code(e), Message |-> GetMessage(e), Detail |-> GetDetail(e),
   Error |-> Error(e), PublicError |-> PublicError(e),
   ValidationErrors |-> GetValidationErrors(m, e),
   StackTrace |-> GetStackTrace(m, e),
   Wrapped |-> GetWrapped(m, e), Unwrap |-> Unwrap(m, e)]


NoView == [Code |-> "", Message |-> "", Detail |-> "", Error |-> "",
           PublicError |-> "", ValidationErrors |-> <<>>, StackTrace |-> <<>>,
           Wrapped |-> <<>>, Unwrap |-> NilError]

(***************************************************************************)
(* Operations on the heap.  Each takes the heap h, the memory m and its    *)
(* arguments and yields the new heap, the new memory and the pointer it    *)
(* returns (res).                                                          *)
(***************************************************************************)
Alloc(h, m, e) == [heap |-> Append(h, e), mem |-> m, res |-> Len(h) + 1]

\* captureStackTrace: the frames of the active call chain, appended one by
\* one to a nil slice.
captureStackTrace(m, frames) == GoAppendEach(m, NilSlice, frames, ZeroStackFrame)

\* newErr := *e, then a fresh array for every sequence that is not empty.
copy(h, m, p) ==
  LET e == h[p]
      w == IF e.Wrapped.len > 0 THEN MakeCopy(m, e.Wrapped)
           ELSE [mem |-> m, slice |-> e.Wrapped]
      v == IF e.ValidationErrors.len > 0 THEN MakeCopy(w.mem, e.ValidationErrors)
           ELSE [mem |-> w.mem, slice |-> e.ValidationErrors]
      s == IF e.StackTrace.len > 0 THEN MakeCopy(v.mem, e.StackTrace)
           ELSE [mem |-> v.mem, slice |-> e.StackTrace]
  IN Alloc(h, s.mem, [e EXCEPT !.Wrapped = w.slice,
                               !.ValidationErrors = v.slice,
                               !.StackTrace = s.slice])

\* A WithDetail that writes through the receiver's pointer.
WithDetailInPlace(h, m, p, detail) ==
  [heap |-> [h EXCEPT ![p].Detail = detail], mem |-> m, res |-> p]

WithDetail(h, m, p, detail) ==
  LET c == copy(h, m, p)
  IN [c EXCEPT !.heap[c.res].Detail = detail]

WithPublicMessage(h, m, p, msg) ==
  LET c == copy(h, m, p)
  IN [c EXCEPT !.heap[c.res].PublicMessage = msg]

WithWrapped(h, m, p, err) ==
  LET c == copy(h, m, p)
      a == GoAppend(c.mem, c.heap[c.res].Wrapped, <<err>>, NilError)
  IN [c EXCEPT !.heap[c.res].Wrapped = a.slice, !.mem = a.mem]

\* A WithValidationErrors that leaves the code as it was.
WithValidationErrorsKeepCode(h, m, p, errs) ==
  LET c == copy(h, m, p)
      a == GoAppend(c.mem, c.heap[c.res].ValidationErrors, errs, ZeroValidationError)
  IN [c EXCEPT !.heap[c.res].ValidationErrors = a.slice, !.mem = a.mem]

\* A WithValidationErrors that sets the code only when failures are given.
WithValidationErrorsIfAny(h, m, p, errs) ==
  LET c == copy(h, m, p)
      a == GoAppend(c.mem, c.heap[c.res].ValidationErrors, errs, ZeroValidationError)
  IN [c EXCEPT !.heap[c.res].ValidationErrors = a.slice,
               !.heap[c.res].ErrCode = IF Len(errs) > 0 THEN CodeValidation ELSE @,
               !.mem = a.mem]

WithValidationErrors(h, m, p, errs) ==
  LET c == copy(h, m, p)
      a == GoAppend(c.mem, c.heap[c.res].ValidationErrors, errs, ZeroValidationError)
  IN [c EXCEPT !.heap[c.res].ValidationErrors = a.slice,
               !.heap[c.res].ErrCode = CodeValidation,
               !.mem = a.mem]

WithValidationError(h, m, p, ve) ==
  LET c == copy(h, m, p)
      a == GoAppend(c.mem, c.heap[c.res].ValidationErrors, <<ve>>, ZeroValidationError)
  IN [c EXCEPT !.heap[c.res].ValidationErrors = a.slice,
               !.heap[c.res].ErrCode = CodeValidation,
               !.mem = a.mem]

\* A WithStackTrace that appends the capture to the frames already held.
WithStackTraceAppending(h, m, p, frames) ==
  LET c == copy(h, m, p)
      t == GoAppendEach(c.mem, c.heap[c.res].StackTrace, frames, ZeroStackFrame)
  IN [c EXCEPT !.heap[c.res].StackTrace = t.slice, !.mem = t.mem]

WithStackTrace(h, m, p, frames) ==
  LET c == copy(h, m, p)
      t == captureStackTrace(c.mem, frames)
  IN [c EXCEPT !.heap[c.res].StackTrace = t.slice, !.mem = t.mem]

New(h, m, code, message) == Alloc(h, m, Er(code, message))

NewWithStack(h, m, code, message, frames) ==
  LET t == captureStackTrace(m, frames)
  IN Alloc(h, t.mem, [Er(code, message) EXCEPT !.StackTrace = t.slice])

Wrap(h, m, err, code, message) ==
  LET w == Literal(m, <<err>>)
  IN Alloc(h, w.mem, [Er(code, message) EXCEPT !.Wrapped = w.slice])

WrapWithStack(h, m, err, code, message, frames) ==
  LET w == Literal(m, <<err>>)
      t == captureStackTrace(w.mem, frames)
  IN Alloc(h, t.mem, [Er(code, message) EXCEPT !.Wrapped = w.slice,
                                               !.StackTrace = t.slice])

\* Internal(message) and InternalWithCause(message, cause).
Internal(h, m, message, frames) == NewWithStack(h, m, CodeInternal, message, frames)

InternalWithCause(h, m, message, cause, frames) ==
  WrapWithStack(h, m, cause, CodeInternal, message, frames)

ValidationSingle(h, m, ve) ==
  LET v == Literal(m, <<ve>>)
  IN Alloc(h, v.mem,
           [Er(CodeValidation, "validation failed for field") EXCEPT
              !.ValidationErrors = v.slice])

\* The value keeps the caller's slice header: no copy is made.
ValidationWithErrors(h, m, message, validationErrors) ==
  Alloc(h, m, [Er(CodeValidation, message) EXCEPT
                 !.ValidationErrors = validationErrors])

(***************************************************************************)
(* The validation collector.  A collector c holds its slice of failures    *)
(* (errors) and, for the record, the failures Add was called with (added). *)
(***************************************************************************)
\* make([]ValidationError, 0): no element, no capacity.
CollectValidationErrors == [made |-> TRUE, errors |-> NilSlice, added |-> <<>>]

\* An Add that, once the collector holds a failure, writes over its first.
AddOverFirst(m, c, ve) ==
  IF c.errors.len = 0
  THEN LET a == GoAppend(m, c.errors, <<ve>>, ZeroValidationError)
       IN [mem |-> a.mem, vc |-> [c EXCEPT !.errors = a.slice, !.added = Append(@, ve)]]
  ELSE [mem |-> [m EXCEPT ![c.errors.arr][1] = ve],
        vc |-> [c EXCEPT !.added = Append(@, ve)]]

Add(m, c, ve) ==
  LET a == GoAppend(m, c.errors, <<ve>>, ZeroValidationError)
  IN [mem |-> a.mem, vc |-> [c EXCEPT !.errors = a.slice, !.added = Append(@, ve)]]

\* Add as the steps of `vc.errors = append(vc.errors, ...)` that a worker
\* takes: the slice is loaded from the collector, the failure is appended
\* to the loaded slice, and the result is stored in the collector.  call is
\* the state of the call: its place, the slice it holds and its failure.
\* The three words of the slice are moved in one step.
AddLoad(c, ve) == [pc |-> "loaded", errors |-> c.errors, ve |-> ve]

AddAppend(m, call) ==
  LET a == GoAppend(m, call.errors, <<call.ve>>, ZeroValidationError)
  IN [mem |-> a.mem, call |-> [call EXCEPT !.pc = "appended", !.errors = a.slice]]

\* A store that drops the appended slice.
AddStoreLoaded(c, call) == [c EXCEPT !.added = Append(@, call.ve)]

AddStore(c, call) == [c EXCEPT !.errors = call.errors, !.added = Append(@, call.ve)]

\* A HasErrors that wants more than one failure.
HasErrorsSeveral(c) == c.errors.len > 1

HasErrors(c) == c.errors.len > 0

\* The collector's Error(): nil (res = 0) when it holds no failure, else a
\* value over the collector's own slice.
CollectorError(h, m, c) ==
  IF ~HasErrors(c) THEN [heap |-> h, mem |-> m, res |-> 0]
  ELSE ValidationWithErrors(h, m, "validation failed", c.errors)

(***************************************************************************)
(* HTTP projection.                                                        *)
(***************************************************************************)
\* An HTTPStatus that answers a timeout with 504 Gateway Timeout.
HTTPStatusGatewayTimeout(e) ==
  CASE e.ErrCode \in {CodeInvalidInput, CodeValidation} -> 400
    [] e.ErrCode = CodeNotFound -> 404
    [] e.ErrCode = CodeAlreadyExists -> 409
    [] e.ErrCode = CodePermissionDenied -> 403
    [] e.ErrCode = CodeUnauthenticated -> 401
    [] e.ErrCode = CodeInternal -> 500
    [] e.ErrCode = CodeUnavailable -> 503
    [] e.ErrCode = CodeTimeout -> 504
    [] e.ErrCode = CodeResourceExhausted -> 429
    [] OTHER -> 500

HTTPStatus(e) ==
  CASE e.ErrCode \in {CodeInvalidInput, CodeValidation} -> 400
    [] e.ErrCode = CodeNotFound -> 404
    [] e.ErrCode = CodeAlreadyExists -> 409
    [] e.ErrCode = CodePermissionDenied -> 403
    [] e.ErrCode = CodeUnauthenticated -> 401
    [] e.ErrCode = CodeInternal -> 500
    [] e.ErrCode = CodeUnavailable -> 503
    [] e.ErrCode = CodeTimeout -> 408
    [] e.ErrCode = CodeResourceExhausted -> 429
    [] OTHER -> 500

\* A status switch with the cases for 403 and 401 exchanged.
FromHTTPStatusCodeSwapped(status) ==
  CASE status = 400 -> CodeInvalidInput
    [] status = 404 -> CodeNotFound
    [] status = 409 -> CodeAlreadyExists
    [] status = 403 -> CodeUnauthenticated
    [] status = 401 -> CodePermissionDenied
    [] status = 503 -> CodeUnavailable
    [] status = 408 -> CodeTimeout
    [] status = 429 -> CodeResourceExhausted
    [] status = 500 -> CodeInternal
    [] OTHER -> CodeUnknown

\* The status switch of FromHTTPStatus.
FromHTTPStatusCode(status) ==
  CASE status = 400 -> CodeInvalidInput
    [] status = 404 -> CodeNotFound
    [] status = 409 -> CodeAlreadyExists
    [] status = 403 -> CodePermissionDenied
    [] status = 401 -> CodeUnauthenticated
    [] status = 503 -> CodeUnavailable
    [] status = 408 -> CodeTimeout
    [] status = 429 -> CodeResourceExhausted
    [] status = 500 -> CodeInternal
    [] OTHER -> CodeUnknown

\* The status switch of the FromHTTPStatus that has no case for 500.
FromHTTPStatusCodeNo500(status) ==
  CASE status = 400 -> CodeInvalidInput
    [] status = 404 -> CodeNotFound
    [] status = 409 -> CodeAlreadyExists
    [] status = 403 -> CodePermissionDenied
    [] status = 401 -> CodeUnauthenticated
    [] status = 503 -> CodeUnavailable
    [] status = 408 -> CodeTimeout
    [] status = 429 -> CodeResourceExhausted
    [] OTHER -> CodeInternal

\* The three FromHTTPStatus of the repository: two over the error value with
\* exported fields (New captures no stack), one over the error value with
\* unexported fields (New captures the stack).
FromHTTPStatus(h, m, status, message) ==
  New(h, m, FromHTTPStatusCode(status), message)

FromHTTPStatusNo500(h, m, status, message) ==
  New(h, m, FromHTTPStatusCodeNo500(status), message)

FromHTTPStatusTraced(h, m, status, message, frames) ==
  NewWithStack(h, m, FromHTTPStatusCode(status), message, frames)

\* *HTTPOptions: nil, or the options a caller sets.  Metadata is an opaque
\* map that is passed through ("nil" when there is none).
NilOptions ==
  [nil |-> TRUE, IncludeStackTrace |-> FALSE, IncludeTimestamp |-> FALSE,
   RequestID |-> "", TraceID |-> "", Version |-> "", Metadata |-> "nil"]

DefaultHTTPOptions ==
  [nil |-> FALSE, IncludeStackTrace |-> FALSE, IncludeTimestamp |-> TRUE,
   RequestID |-> "", TraceID |-> "", Version |-> "", Metadata |-> "nil"]

HTTPOptions ==
  {NilOptions, DefaultHTTPOptions}
    \cup [nil : {FALSE}, IncludeStackTrace : BOOLEAN, IncludeTimestamp : BOOLEAN,
          RequestID : {"req-1"}, TraceID : {"", "trace-1"}, Version : {"", "v1"},
          Metadata : {"nil", "region=eu"}]

\* time.Now().UTC() at the calls, and the zero time.Time.
Times == {1, 2}
ZeroTime == 0

\* The nil *HTTPErrorResponse, the nil *HTTPResponseMeta and the nil data.
NoErrorResponse ==
  [nil |-> TRUE, Code |-> "", Message |-> "", Detail |-> "",
   ValidationErrors |-> NilSlice, StackTrace |-> NilSlice, Metadata |-> "nil"]

NoMeta == [nil |-> TRUE, Version |-> ""]

NoData == "nil"

\* The part of the envelope that ToHTTPResponse and CreateSuccessResponse
\* fill in the same way from the options.
Stamp(response, opts, now) ==
  [response EXCEPT
     !.Timestamp = IF opts.IncludeTimestamp THEN now ELSE @,
     !.RequestID = IF opts.RequestID # "" THEN opts.RequestID ELSE @,
     !.TraceID = IF opts.TraceID # "" THEN opts.TraceID ELSE @,
     !.Meta = IF opts.Version # "" THEN [nil |-> FALSE, Version |-> opts.Version] ELSE @]

HTTPResponse(success, errorResp, data) ==
  [Success |-> success, Error |-> errorResp, Data |-> data, Meta |-> NoMeta,
   Timestamp |-> ZeroTime, RequestID |-> "", TraceID |-> ""]

\* A ToHTTPResponse that includes the frames whatever the options say.
ToHTTPResponseAlwaysTraced(e, options, now) ==
  LET opts == IF options.nil THEN DefaultHTTPOptions ELSE options
      errorResp == [nil |-> FALSE, Code |-> e.ErrCode, Message |-> PublicError(e),
                    Detail |-> e.Detail, ValidationErrors |-> e.ValidationErrors,
                    StackTrace |-> e.StackTrace,
                    Metadata |-> opts.Metadata]
  IN Stamp(HTTPResponse(FALSE, errorResp, NoData), opts, now)

\* ToHTTPResponse of the error value with exported fields.  The error block
\* holds the value's slices, not copies of them.
ToHTTPResponse(e, options, now) ==
  LET opts == IF options.nil THEN DefaultHTTPOptions ELSE options
      errorResp == [nil |-> FALSE, Code |-> e.ErrCode, Message |-> PublicError(e),
                    Detail |-> e.Detail, ValidationErrors |-> e.ValidationErrors,
                    StackTrace |-> IF opts.IncludeStackTrace /\ e.StackTrace.len > 0
                                   THEN e.StackTrace ELSE NilSlice,
                    Metadata |-> opts.Metadata]
  IN Stamp(HTTPResponse(FALSE, errorResp, NoData), opts, now)

\* ToHTTPResponse of the error value with unexported fields: the message
\* field is e.message.
ToHTTPResponseMessage(e, options, now) ==
  LET opts == IF options.nil THEN DefaultHTTPOptions ELSE options
      errorResp == [nil |-> FALSE, Code |-> e.ErrCode, Message |-> e.Message,
                    Detail |-> e.Detail, ValidationErrors |-> e.ValidationErrors,
                    StackTrace |-> IF opts.IncludeStackTrace /\ e.StackTrace.len > 0
                                   THEN e.StackTrace ELSE NilSlice,
                    Metadata |-> opts.Metadata]
  IN Stamp(HTTPResponse(FALSE, errorResp, NoData), opts, now)

\* A CreateSuccessResponse that also allocates an (empty) error block.
CreateSuccessResponseWithError(data, options, now) ==
  LET opts == IF options.nil THEN DefaultHTTPOptions ELSE options
  IN Stamp(HTTPResponse(TRUE, [NoErrorResponse EXCEPT !.nil = FALSE], data), opts, now)

CreateSuccessResponse(data, options, now) ==
  LET opts == IF options.nil THEN DefaultHTTPOptions ELSE options
  IN Stamp(HTTPResponse(TRUE, NoErrorResponse, data), opts, now)

\* The options DefaultHTTPErrorHandler writes with: the caller's, or when
\* there are none its own, with the identifiers of the request's headers.
HandlerOptions(opts, requestID, traceID) ==
  IF opts.nil
  THEN [nil |-> FALSE, IncludeStackTrace |-> FALSE, IncludeTimestamp |-> TRUE,
        RequestID |-> requestID, TraceID |-> traceID, Version |-> "",
        Metadata |-> "nil"]
  ELSE opts

(***************************************************************************)
(* gRPC projection.                                                        *)
(***************************************************************************)
GRPCCodes ==
  { "OK", "Canceled", "Unknown", "InvalidArgument", "DeadlineExceeded",
    "NotFound", "AlreadyExists", "PermissionDenied", "ResourceExhausted",
    "Unavailable", "Internal", "Unauthenticated" }

\* A code switch that sends TIMEOUT to Unavailable.
GRPCCodeTimeoutUnavailable(e) ==
  CASE e.ErrCode \in {CodeInvalidInput, CodeValidation} -> "InvalidArgument"
    [] e.ErrCode = CodeNotFound -> "NotFound"
    [] e.ErrCode = CodeAlreadyExists -> "AlreadyExists"
    [] e.ErrCode = CodePermissionDenied -> "PermissionDenied"
    [] e.ErrCode = CodeUnauthenticated -> "Unauthenticated"
    [] e.ErrCode = CodeInternal -> "Internal"
    [] e.ErrCode \in {CodeUnavailable, CodeTimeout} -> "Unavailable"
    [] e.ErrCode = CodeResourceExhausted -> "ResourceExhausted"
    [] OTHER -> "Unknown"

\* The code switch of GRPCStatus.
GRPCCode(e) ==
  CASE e.ErrCode \in {CodeInvalidInput, CodeValidation} -> "InvalidArgument"
    [] e.ErrCode = CodeNotFound -> "NotFound"
    [] e.ErrCode = CodeAlreadyExists -> "AlreadyExists"
    [] e.ErrCode = CodePermissionDenied -> "PermissionDenied"
    [] e.ErrCode = CodeUnauthenticated -> "Unauthenticated"
    [] e.ErrCode = CodeInternal -> "Internal"
    [] e.ErrCode = CodeUnavailable -> "Unavailable"
    [] e.ErrCode = CodeTimeout -> "DeadlineExceeded"
    [] e.ErrCode = CodeResourceExhausted -> "ResourceExhausted"
    [] OTHER -> "Unknown"

Digits == <<"0", "1", "2", "3", "4", "5", "6", "7", "8", "9">>

\* %d of a non-negative int.
RECURSIVE Itoa(_)
Itoa(n) == IF n < 10 THEN <<Digits[n + 1]>> ELSE Itoa(n \div 10) \o <<Digits[(n % 10) + 1]>>

\* fmt.Sprintf("%s:%d %s", frame.File, frame.Line, frame.Function)
FormatEntry(frame) == frame.File \o <<":">> \o Itoa(frame.Line) \o <<" ">> \o frame.Function

\* strings.Split(s, sep) for a one-character separator.
RECURSIVE Split(_, _)
Split(s, sep) ==
  IF \A i \in 1..Len(s) : s[i] # sep THEN <<s>>
  ELSE LET k == CHOOSE i \in 1..Len(s) : s[i] = sep /\ \A j \in 1..(i - 1) : s[j] # sep
       IN <<SubSeq(s, 1, k - 1)>> \o Split(SubSeq(s, k + 1, Len(s)), sep)

DigitValue(ch) == (CHOOSE i \in 1..10 : Digits[i] = ch) - 1

RECURSIVE parseIntFrom(_, _)
parseIntFrom(s, result) ==
  IF Len(s) = 0 THEN result
  ELSE IF \E i \in 1..10 : Digits[i] = Head(s)
       THEN parseIntFrom(Tail(s), result * 10 + DigitValue(Head(s)))
       ELSE result

parseInt(s) == parseIntFrom(s, 0)

StatusNew(code, msg) == [code |-> code, message |-> msg, details |-> <<>>]

\* A field violation that carries the failure's field as its description.
FieldViolationOfField(ve) == [Field |-> ve.Field, Description |-> ve.Field]

FieldViolation(ve) == [Field |-> ve.Field, Description |-> ve.Message]

BadRequest(ves) ==
  [type |-> "BadRequest", FieldViolations |-> [i \in 1..Len(ves) |-> FieldViolation(ves[i])]]

\* An info block with the detail and the message in each other's place.
ErrorInfoSwapped(e) ==
  [type |-> "ErrorInfo", Reason |-> e.ErrCode, Domain |-> "???",
   Metadata |-> [detail |-> e.Message, message |-> e.Detail]]

ErrorInfo(e) ==
  [type |-> "ErrorInfo", Reason |-> e.ErrCode, Domain |-> "???",
   Metadata |-> [detail |-> e.Detail, message |-> e.Message]]

DebugInfo(frames) ==
  [type |-> "DebugInfo", Detail |-> "Go stack trace",
   StackEntries |-> [i \in 1..Len(frames) |-> FormatEntry(frames[i])]]

\* A links block whose links carry the type names of the causes.
HelpOfTypes(causes) ==
  [type |-> "Help",
   Links |-> [i \in 1..Len(causes) |->
                [Description |-> <<"Wrapped error", i>>, Url |-> causes[i].type]]]

Help(causes) ==
  [type |-> "Help",
   Links |-> [i \in 1..Len(causes) |->
                [Description |-> <<"Wrapped error", i>>, Url |-> causes[i].text]]]

\* Detail blocks collected with the debug block first.
GRPCDetailsDebugFirst(m, e) ==
  (IF e.StackTrace.len > 0 THEN <<DebugInfo(Elems(m, e.StackTrace))>> ELSE <<>>)
  \o (IF e.ValidationErrors.len > 0 THEN <<BadRequest(Elems(m, e.ValidationErrors))>> ELSE <<>>)
  \o (IF e.Detail # "" \/ e.Message # "" THEN <<ErrorInfo(e)>> ELSE <<>>)
  \o (IF e.Wrapped.len > 0 THEN <<Help(Elems(m, e.Wrapped))>> ELSE <<>>)

\* The detail blocks GRPCStatus collects, in the order it appends them.
GRPCDetails(m, e) ==
  (IF e.ValidationErrors.len > 0 THEN <<BadRequest(Elems(m, e.ValidationErrors))>> ELSE <<>>)
  \o (IF e.Detail # "" \/ e.Message # "" THEN <<ErrorInfo(e)>> ELSE <<>>)
  \o (IF e.StackTrace.len > 0 THEN <<DebugInfo(Elems(m, e.StackTrace))>> ELSE <<>>)
  \o (IF e.Wrapped.len > 0 THEN <<Help(Elems(m, e.Wrapped))>> ELSE <<>>)

\* The strings a detail block holds in its proto3 string fields.
StringsOf(d) ==
  CASE d.type = "BadRequest" ->
         UNION {{d.FieldViolations[i].Field, d.FieldViolations[i].Description} :
                  i \in 1..Len(d.FieldViolations)}
    [] d.type = "ErrorInfo" ->
         {d.Reason, d.Domain} \cup {d.Metadata[k] : k \in DOMAIN d.Metadata}
    [] d.type = "Help" -> {d.Links[i].Url : i \in 1..Len(d.Links)}
    [] OTHER -> {}

\* st.WithDetails(details...) marshals every block and fails when one does
\* not marshal.
WithDetailsFails(details) ==
  \E i \in 1..Len(details) : BadText \in StringsOf(details[i])

\* wrappedErr.Error() on a nil error is a nil dereference.
GRPCStatusPanics(m, e) ==
  \E i \in 1..e.Wrapped.len : m[e.Wrapped.arr][i] = NilError

\* GRPCStatus of a value for which it returns.
GRPCStatus(m, e) ==
  LET st == StatusNew(GRPCCode(e), PublicError(e))
      details == GRPCDetails(m, e)
  IN IF Len(details) > 0
     THEN IF WithDetailsFails(details) THEN StatusNew(GRPCCode(e), PublicError(e))
          ELSE [st EXCEPT !.details = details]
     ELSE st

\* The code switch of FromGRPCStatus.
FromGRPCCode(c) ==
  CASE c = "InvalidArgument" -> CodeInvalidInput
    [] c = "NotFound" -> CodeNotFound
    [] c = "AlreadyExists" -> CodeAlreadyExists
    [] c = "PermissionDenied" -> CodePermissionDenied
    [] c = "Unauthenticated" -> CodeUnauthenticated
    [] c = "Internal" -> CodeInternal
    [] c = "Unavailable" -> CodeUnavailable
    [] c = "DeadlineExceeded" -> CodeTimeout
    [] c = "ResourceExhausted" -> CodeResourceExhausted
    [] OTHER -> CodeUnknown

FromGRPCStatus(h, m, st) == New(h, m, FromGRPCCode(st.code), st.message)

\* A code switch that decodes InvalidArgument as FromGRPCStatus does.
FromGRPCCodeWithDetailsInvalidInput(c) ==
  CASE c = "InvalidArgument" -> CodeInvalidInput
    [] c = "NotFound" -> CodeNotFound
    [] c = "AlreadyExists" -> CodeAlreadyExists
    [] c = "PermissionDenied" -> CodePermissionDenied
    [] c = "Unauthenticated" -> CodeUnauthenticated
    [] c = "Internal" -> CodeInternal
    [] c = "Unavailable" -> CodeUnavailable
    [] c = "DeadlineExceeded" -> CodeTimeout
    [] c = "ResourceExhausted" -> CodeResourceExhausted
    [] OTHER -> CodeUnknown

\* The code switch of FromGRPCStatusWithDetails.
FromGRPCCodeWithDetails(c) ==
  CASE c = "InvalidArgument" -> CodeValidation
    [] c = "NotFound" -> CodeNotFound
    [] c = "AlreadyExists" -> CodeAlreadyExists
    [] c = "PermissionDenied" -> CodePermissionDenied
    [] c = "Unauthenticated" -> CodeUnauthenticated
    [] c = "Internal" -> CodeInternal
    [] c = "Unavailable" -> CodeUnavailable
    [] c = "DeadlineExceeded" -> CodeTimeout
    [] c = "ResourceExhausted" -> CodeResourceExhausted
    [] OTHER -> CodeUnknown

\* The frames a debug block's entries parse to; the others are dropped.
RECURSIVE ParseEntries(_)
ParseEntries(entries) ==
  IF Len(entries) = 0 THEN <<>>
  ELSE LET parts == Split(Head(entries), " ")
           fileLineparts == Split(parts[1], ":")
       IN (IF Len(parts) >= 2 /\ Len(fileLineparts) >= 2
           THEN <<[Function |-> parts[2], File |-> fileLineparts[1],
                   Line |-> parseInt(fileLineparts[2])]>>
           ELSE <<>>)
          \o ParseEntries(Tail(entries))

\* One detail block applied to the value under reconstruction (x.er) and
\* the memory (x.mem).
ApplyDetail(x, d) ==
  CASE d.type = "BadRequest" ->
         LET a == GoAppendEach(x.mem, x.er.ValidationErrors,
                    [i \in 1..Len(d.FieldViolations) |->
                       [Field |-> d.FieldViolations[i].Field,
                        Message |-> d.FieldViolations[i].Description,
                        Value |-> "nil"]], ZeroValidationError)
         IN [mem |-> a.mem, er |-> [x.er EXCEPT !.ValidationErrors = a.slice]]
    [] d.type = "ErrorInfo" ->
         LET withDetail == IF "detail" \in DOMAIN d.Metadata
                           THEN [x.er EXCEPT !.Detail = d.Metadata["detail"]]
                           ELSE x.er
         IN [mem |-> x.mem,
             er |-> IF "message" \in DOMAIN d.Metadata /\ withDetail.Message = ""
                    THEN [withDetail EXCEPT !.Message = d.Metadata["message"]]
                    ELSE withDetail]
    [] d.type = "DebugInfo" ->
         LET a == GoAppendEach(x.mem, x.er.StackTrace, ParseEntries(d.StackEntries),
                    ZeroStackFrame)
         IN [mem |-> a.mem, er |-> [x.er EXCEPT !.StackTrace = a.slice]]
    [] d.type = "Help" ->
         LET a == GoAppendEach(x.mem, x.er.Wrapped,
                    [i \in 1..Len(d.Links) |->
                       [type |-> "errors.errorString", text |-> d.Links[i].Url]],
                    NilError)
         IN [mem |-> a.mem, er |-> [x.er EXCEPT !.Wrapped = a.slice]]
    [] OTHER -> x

RECURSIVE ApplyDetails(_, _)
ApplyDetails(x, details) ==
  IF Len(details) = 0 THEN x
  ELSE ApplyDetails(ApplyDetail(x, Head(details)), Tail(details))

FromGRPCStatusWithDetails(h, m, st) ==
  LET x == ApplyDetails([mem |-> m, er |-> Er(FromGRPCCodeWithDetails(st.code), st.message)],
                        st.details)
  IN Alloc(h, x.mem, x.er)

(***************************************************************************)
(* The state machine.                                                      *)
(*                                                                         *)
(* heap, mem : the error values and the backing arrays allocated so far    *)
(* snap      : what the accessors of each value returned when it was made  *)
(* last      : the last call: operation, receiver, result, argument, and   *)
(*             what the receiver's accessors returned before the call      *)
(* wire      : the status in flight: produced by a projection (src is the  *)
(*             projected value) or received from a peer (src = 0)          *)
(* vc        : the validation collector                                    *)
(***************************************************************************)
Mutators == {"WithDetail", "WithPublicMessage", "WithWrapped",
             "WithValidationError", "WithValidationErrors", "WithStackTrace"}

Live == 1..Len(heap)

\* The workers that share a collector, and no Add under way: overlapped
\* records that an Add began while another was under way.
Workers == {1, 2}

IdleCall == [pc |-> "idle", errors |-> NilSlice, ve |-> ZeroValidationError]

NoAdds == [call |-> [w \in Workers |-> IdleCall], overlapped |-> FALSE]

\* No collector has been made; errors is the collector's slice of failures.
NoCollector == [made |-> FALSE, errors |-> NilSlice, added |-> <<>>]

\* Nothing is in flight; env is the envelope written and opts the options
\* it was written with.
NoWire ==
  [kind |-> "none", src |-> 0, status |-> 0, st |-> StatusNew("OK", ""),
   env |-> HTTPResponse(FALSE, NoErrorResponse, NoData), opts |-> NilOptions]

\* The operation op, called on recv with arg, returned r.
Return(r, op, recv, arg) ==
  /\ heap' = r.heap
  /\ mem' = r.mem
  /\ snap' = [i \in 1..Len(r.heap) |->
                IF i <= Len(snap) THEN snap[i] ELSE View(r.mem, r.heap[i])]
  /\ last' = [op |-> op, recv |-> recv, res |-> r.res, arg |-> arg,
              before |-> IF recv = 0 THEN NoView ELSE View(mem, heap[recv])]

\* A call that reads recv and allocates nothing.
Read(op, recv) ==
  /\ UNCHANGED <<heap, mem, snap, vc, adds>>
  /\ last' = [op |-> op, recv |-> recv, res |-> 0, arg |-> <<>>,
              before |-> View(mem, heap[recv])]

Init ==
  /\ heap = <<>>
  /\ mem = <<>>
  /\ snap = <<>>
  /\ last = [op |-> "init", recv |-> 0, res |-> 0, arg |-> <<>>, before |-> NoView]
  /\ wire = NoWire
  /\ vc = NoCollector
  /\ adds = NoAdds

\* Codes of the constructors that are explored with one code only.
SomeCodes == {CodeInternal, CodeNotFound}

DoNew ==
  /\ Len(heap) < MaxHeap
  /\ \E code \in ErrorCode, message \in Messages :
       Return(New(heap, mem, code, message), "New", 0, <<>>)
  /\ UNCHANGED <<wire, vc, adds>>

\* Internal(message): NewWithStack under INTERNAL.
DoNewWithStack ==
  /\ Len(heap) < MaxHeap
  /\ \E frames \in SeqsUpTo(StackFrame, MaxFrames) :
       Return(NewWithStack(heap, mem, CodeInternal, "boom", frames), "NewWithStack", 0, <<>>)
  /\ UNCHANGED <<wire, vc, adds>>

DoWrap ==
  /\ Len(heap) < MaxHeap
  /\ \E err \in Causes, code \in SomeCodes :
       Return(Wrap(heap, mem, err, code, "boom"), "Wrap", 0, <<err>>)
  /\ UNCHANGED <<wire, vc, adds>>

DoValidationSingle ==
  /\ Len(heap) < MaxHeap
  /\ \E ve \in ValidationError :
       Return(ValidationSingle(heap, mem, ve), "ValidationSingle", 0, <<ve>>)
  /\ UNCHANGED <<wire, vc, adds>>

DoValidationWithErrors ==
  /\ Len(heap) < MaxHeap
  /\ \E xs \in SeqsUpTo(ValidationError, MaxList), spare \in 0..MaxSpare :
       LET c == CallerSlice(mem, xs, spare, ZeroValidationError)
       IN Return(ValidationWithErrors(heap, c.mem, "invalid", c.slice),
                 "ValidationWithErrors", 0, xs)
  /\ UNCHANGED <<wire, vc, adds>>

DoWithDetail ==
  /\ Len(heap) < MaxHeap
  /\ \E p \in Live, detail \in Details :
       Return(WithDetail(heap, mem, p, detail), "WithDetail", p, <<>>)
  /\ UNCHANGED <<wire, vc, adds>>

DoWithPublicMessage ==
  /\ Len(heap) < MaxHeap
  /\ \E p \in Live, msg \in PublicMessages :
       Return(WithPublicMessage(heap, mem, p, msg), "WithPublicMessage", p, <<>>)
  /\ UNCHANGED <<wire, vc, adds>>

DoWithWrapped ==
  /\ Len(heap) < MaxHeap
  /\ \E p \in Live, err \in Causes :
       Return(WithWrapped(heap, mem, p, err), "WithWrapped", p, <<err>>)
  /\ UNCHANGED <<wire, vc, adds>>

DoWithValidationError ==
  /\ Len(heap) < MaxHeap
  /\ \E p \in Live, ve \in ValidationError :
       Return(WithValidationError(heap, mem, p, ve), "WithValidationError", p, <<ve>>)
  /\ UNCHANGED <<wire, vc, adds>>

DoWithValidationErrors ==
  /\ Len(heap) < MaxHeap
  /\ \E p \in Live, errs \in SeqsUpTo(ValidationError, MaxList) :
       Return(WithValidationErrors(heap, mem, p, errs), "WithValidationErrors", p, errs)
  /\ UNCHANGED <<wire, vc, adds>>

DoWithStackTrace ==
  /\ Len(heap) < MaxHeap
  /\ \E p \in Live, frames \in SeqsUpTo(StackFrame, MaxFrames) :
       Return(WithStackTrace(heap, mem, p, frames), "WithStackTrace", p, frames)
  /\ UNCHANGED <<wire, vc, adds>>

Next ==
  \/ DoNew
  \/ DoNewWithStack
  \/ DoWrap
  \/ DoValidationSingle
  \/ DoValidationWithErrors
  \/ DoWithDetail
  \/ DoWithPublicMessage
  \/ DoWithWrapped
  \/ DoWithValidationError
  \/ DoWithValidationErrors
  \/ DoWithStackTrace

\* Construction and mutation of error values.
Spec == Init /\ [][Next]_vars

(***************************************************************************)
(* The projections, each from one error value that the constructors and   *)
(* mutators can build.                                                     *)
(***************************************************************************)
\* The value New(code, message) becomes under WithDetail, WithPublicMessage,
\* WithValidationErrors, WithWrapped (once per cause) and WithStackTrace.
Built(code, message, detail, pub, ves, causes, frames) ==
  LET w == Literal(<<>>, causes)
      v == Literal(w.mem, ves)
      t == Literal(v.mem, frames)
  IN [mem |-> t.mem,
      er |-> [ErrCode |-> IF Len(ves) > 0 THEN CodeValidation ELSE code,
              Message |-> message, Detail |-> detail, PublicMessage |-> pub,
              Wrapped |-> w.slice, ValidationErrors |-> v.slice,
              StackTrace |-> t.slice]]

InitBuilt(b) ==
  /\ heap = <<b.er>>
  /\ mem = b.mem
  /\ snap = <<View(b.mem, b.er)>>
  /\ last = [op |-> "init", recv |-> 0, res |-> 1, arg |-> <<>>, before |-> NoView]
  /\ wire = NoWire
  /\ vc = NoCollector
  /\ adds = NoAdds

(***************************************************************************)
(* HTTP.                                                                   *)
(***************************************************************************)
HTTPStatuses == {200, 400, 401, 403, 404, 408, 409, 418, 429, 500, 502, 503}

InitHTTP ==
  \E code \in ErrorCode, message \in Messages, pub \in PublicMessages,
     ves \in ValidationLists :
    /\ Len(ves) > 0 => code = CodeValidation
    /\ InitBuilt(Built(code, message, "", pub, ves, <<>>, <<>>))

DoHTTPStatus ==
  /\ Len(heap) < MaxWireHeap
  /\ \E p \in Live :
       /\ Read("HTTPStatus", p)
       /\ wire' = [NoWire EXCEPT !.kind = "http", !.src = p,
                                 !.status = HTTPStatus(heap[p])]

\* A response status arrives from a peer.
DoReceiveHTTP ==
  /\ Len(heap) < MaxWireHeap
  /\ wire.kind = "none"
  /\ \E status \in HTTPStatuses :
       wire' = [NoWire EXCEPT !.kind = "http", !.status = status]
  /\ UNCHANGED <<heap, mem, snap, last, vc, adds>>

DoFromHTTPStatus ==
  /\ Len(heap) < MaxWireHeap
  /\ wire.kind = "http"
  /\ \E message \in Messages :
       Return(FromHTTPStatus(heap, mem, wire.status, message),
              "FromHTTPStatus", 0, <<message>>)
  /\ UNCHANGED <<wire, vc, adds>>

DoFromHTTPStatusNo500 ==
  /\ Len(heap) < MaxWireHeap
  /\ wire.kind = "http"
  /\ \E message \in Messages :
       Return(FromHTTPStatusNo500(heap, mem, wire.status, message),
              "FromHTTPStatus", 0, <<message>>)
  /\ UNCHANGED <<wire, vc, adds>>

DoFromHTTPStatusTraced ==
  /\ Len(heap) < MaxWireHeap
  /\ wire.kind = "http"
  /\ \E message \in Messages, frames \in CallChains :
       Return(FromHTTPStatusTraced(heap, mem, wire.status, message, frames),
              "FromHTTPStatus", 0, <<message>>)
  /\ UNCHANGED <<wire, vc, adds>>

\* What a handler panics with: an error value, another error, a string or
\* any other value.  err is the value as an error, where it is one.
Recovered ==
  {[kind |-> "Error", ptr |-> p,
    err |-> [type |-> "*erz.Er", text |-> Error(heap[p])]] : p \in Live}
    \cup {[kind |-> "error", ptr |-> 0, err |-> c] : c \in {ErrEOF, ErrTimeout}}
    \cup {[kind |-> "string", ptr |-> 0, err |-> [type |-> "string", text |-> "oops"]],
          [kind |-> "other", ptr |-> 0, err |-> [type |-> "int", text |-> "42"]]}

\* The error value the deferred function of HTTPMiddleware hands to the
\* error handler.
HTTPMiddlewareErr(h, m, recovered, frames) ==
  CASE recovered.kind = "Error" -> [heap |-> h, mem |-> m, res |-> recovered.ptr]
    [] recovered.kind = "error" -> Wrap(h, m, recovered.err, CodeInternal, "Panic recovered")
    [] OTHER -> Internal(h, m, "Unknown panic recovered", frames)

\* The error value the deferred function of RecoverMiddleware hands to
\* DefaultErrorHandler.
RecoverMiddlewareErr(h, m, recovered, frames) ==
  LET err == CASE recovered.kind \in {"Error", "error"} -> recovered.err
               [] recovered.kind = "string" ->
                    [type |-> "errors.errorString", text |-> recovered.err.text]
               [] OTHER ->
                    [type |-> "errors.errorString", text |-> "panic recovered: 42"]
  IN InternalWithCause(h, m, "panic recovered", err, frames)

\* The frames of a capture made inside a handler: at least the handler's.
HandlerChains == CallChains \ {<<>>}

\* A handler under HTTPMiddleware panics; DefaultHTTPErrorHandler writes
\* the status and the envelope of the recovered error.
DoHTTPMiddleware ==
  /\ Len(heap) < MaxWireHeap
  /\ wire.kind = "none"
  /\ \E recovered \in Recovered, frames \in HandlerChains,
        opts \in {NilOptions, DefaultHTTPOptions}, now \in Times :
       LET r == HTTPMiddlewareErr(heap, mem, recovered, frames)
           o == HandlerOptions(opts, "req-1", "")
       IN /\ Return(r, "HTTPMiddleware", 0, <<recovered>>)
          /\ wire' = [NoWire EXCEPT !.kind = "recovered", !.src = r.res,
                                    !.status = HTTPStatus(r.heap[r.res]),
                                    !.env = ToHTTPResponse(r.heap[r.res], o, now),
                                    !.opts = o]
  /\ UNCHANGED <<vc, adds>>

\* A handler under erzfiber.RecoverMiddleware panics; DefaultErrorHandler
\* writes the status and the envelope.
DoRecoverMiddleware ==
  /\ Len(heap) < MaxWireHeap
  /\ wire.kind = "none"
  /\ \E recovered \in Recovered, frames \in HandlerChains, now \in Times :
       LET r == RecoverMiddlewareErr(heap, mem, recovered, frames)
       IN /\ Return(r, "RecoverMiddleware", 0, <<recovered>>)
          /\ wire' = [NoWire EXCEPT !.kind = "recovered", !.src = r.res,
                                    !.status = HTTPStatus(r.heap[r.res]),
                                    !.env = ToHTTPResponse(r.heap[r.res],
                                                           DefaultHTTPOptions, now),
                                    !.opts = DefaultHTTPOptions]
  /\ UNCHANGED <<vc, adds>>

NextHTTP ==
  \/ DoHTTPStatus
  \/ DoReceiveHTTP
  \/ DoFromHTTPStatus
  \/ DoFromHTTPStatusNo500
  \/ DoFromHTTPStatusTraced
  \/ DoHTTPMiddleware
  \/ DoRecoverMiddleware

SpecHTTP == InitHTTP /\ [][NextHTTP]_vars

(***************************************************************************)
(* The validation collector, used by one owner.                            *)
(***************************************************************************)
DoCollectValidationErrors ==
  /\ ~vc.made
  /\ vc' = CollectValidationErrors
  /\ last' = [op |-> "CollectValidationErrors", recv |-> 0, res |-> 0, arg |-> <<>>,
              before |-> NoView]
  /\ UNCHANGED <<heap, mem, snap, wire, adds>>

DoAdd ==
  /\ vc.made
  /\ Len(vc.added) < MaxAdds
  /\ \E ve \in ValidationError :
       LET a == Add(mem, vc, ve)
       IN /\ mem' = a.mem
          /\ vc' = a.vc
          /\ last' = [op |-> "Add", recv |-> 0, res |-> 0, arg |-> <<ve>>,
                      before |-> NoView]
  /\ UNCHANGED <<heap, snap, wire, adds>>

DoHasErrors ==
  /\ vc.made
  /\ last' = [op |-> "HasErrors", recv |-> 0, res |-> 0, arg |-> <<HasErrors(vc)>>,
              before |-> NoView]
  /\ UNCHANGED <<heap, mem, snap, wire, vc, adds>>

DoCollectorError ==
  /\ vc.made
  /\ Len(heap) < MaxHeap
  /\ Return(CollectorError(heap, mem, vc), "CollectorError", 0, <<>>)
  /\ UNCHANGED <<wire, vc, adds>>

NextCollector ==
  \/ DoCollectValidationErrors
  \/ DoAdd
  \/ DoHasErrors
  \/ DoCollectorError

SpecCollector == Init /\ [][NextCollector]_vars

\* Two workers call Add on one collector with no synchronization: the
\* steps of their calls interleave in any order.
Busy == {w \in Workers : adds.call[w].pc # "idle"}

DoAddLoad ==
  /\ vc.made
  /\ Len(vc.added) + Cardinality(Busy) < MaxAdds
  /\ \E w \in Workers \ Busy, ve \in ValidationError :
       adds' = [call |-> [adds.call EXCEPT ![w] = AddLoad(vc, ve)],
                overlapped |-> adds.overlapped \/ Busy # {}]
  /\ UNCHANGED <<heap, mem, snap, last, wire, vc>>

DoAddAppend ==
  /\ \E w \in Workers :
       /\ adds.call[w].pc = "loaded"
       /\ LET a == AddAppend(mem, adds.call[w])
          IN /\ mem' = a.mem
             /\ adds' = [adds EXCEPT !.call[w] = a.call]
  /\ UNCHANGED <<heap, snap, last, wire, vc>>

DoAddStore ==
  /\ \E w \in Workers :
       /\ adds.call[w].pc = "appended"
       /\ vc' = AddStore(vc, adds.call[w])
       /\ adds' = [adds EXCEPT !.call[w] = IdleCall]
       /\ last' = [op |-> "Add", recv |-> 0, res |-> 0, arg |-> <<adds.call[w].ve>>,
                   before |-> NoView]
  /\ UNCHANGED <<heap, mem, snap, wire>>

NextCollectorRace ==
  \/ DoCollectValidationErrors
  \/ DoAddLoad
  \/ DoAddAppend
  \/ DoAddStore

SpecCollectorRace == Init /\ [][NextCollectorRace]_vars

(***************************************************************************)
(* The HTTP envelope.                                                      *)
(***************************************************************************)
InitEnvelope ==
  \E code \in ErrorCode, message \in Messages, detail \in Details, pub \in PublicMessages,
     ves \in ValidationLists, frames \in CallChains :
    /\ Len(ves) > 0 => code = CodeValidation
    /\ InitBuilt(Built(code, message, detail, pub, ves, <<>>, frames))

\* The payloads of a success response.
Payloads == {NoData, "user 7"}

\* One envelope is built for one response.
DoToHTTPResponse ==
  \E p \in Live, opts \in HTTPOptions, now \in Times :
    /\ wire.kind = "none"
    /\ Read("ToHTTPResponse", p)
    /\ wire' = [NoWire EXCEPT !.kind = "envelope", !.src = p,
                              !.status = HTTPStatus(heap[p]),
                              !.env = ToHTTPResponse(heap[p], opts, now),
                              !.opts = opts]

DoToHTTPResponseMessage ==
  \E p \in Live, opts \in HTTPOptions, now \in Times :
    /\ wire.kind = "none"
    /\ Read("ToHTTPResponse", p)
    /\ wire' = [NoWire EXCEPT !.kind = "envelope", !.src = p,
                              !.status = HTTPStatus(heap[p]),
                              !.env = ToHTTPResponseMessage(heap[p], opts, now),
                              !.opts = opts]

DoCreateSuccessResponse ==
  \E data \in Payloads, opts \in HTTPOptions, now \in Times :
    /\ wire.kind = "none"
    /\ UNCHANGED <<heap, mem, snap, vc, adds>>
    /\ last' = [op |-> "CreateSuccessResponse", recv |-> 0, res |-> 0,
                arg |-> <<data>>, before |-> NoView]
    /\ wire' = [NoWire EXCEPT !.kind = "envelope", !.status = 200,
                              !.env = CreateSuccessResponse(data, opts, now),
                              !.opts = opts]

NextEnvelope ==
  \/ DoToHTTPResponse
  \/ DoToHTTPResponseMessage
  \/ DoCreateSuccessResponse

SpecEnvelope == InitEnvelope /\ [][NextEnvelope]_vars

(***************************************************************************)
(* gRPC.                                                                   *)
(***************************************************************************)
\* Statuses a peer that is not this library may send.
ForeignStatuses ==
  { [code |-> "NotFound", message |-> "gone",
     details |-> <<BadRequest(<<EmailRequired>>)>>],
    [code |-> "InvalidArgument", message |-> "",
     details |-> <<[type |-> "ErrorInfo", Reason |-> "X", Domain |-> "peer",
                    Metadata |-> [detail |-> "row 7", message |-> "boom"]]>>],
    [code |-> "Canceled", message |-> "stop", details |-> <<>>],
    [code |-> "Internal", message |-> "bad",
     details |-> <<[type |-> "DebugInfo", Detail |-> "",
                    StackEntries |-> <<<<"x">>, <<"m", ":", "3", " ", "f">>,
                                      <<"m", " ", "f">>,
                                      <<"m", ":", "4", " ", "f", " ", "x">>,
                                      <<"a", ":", "b", ":", "7", " ", "g">>>>]>>] }

InitGRPC ==
  \E code \in ErrorCode, message \in Messages, detail \in Details, pub \in PublicMessages,
     ves \in ValidationLists, causes \in CauseLists, frames \in WireChains :
    /\ Len(ves) > 0 => code = CodeValidation
    /\ InitBuilt(Built(code, message, detail, pub, ves, causes, frames))

DoGRPCStatus ==
  /\ Len(heap) < MaxWireHeap
  /\ \E p \in Live :
       /\ ~GRPCStatusPanics(mem, heap[p])
       /\ Read("GRPCStatus", p)
       /\ wire' = [NoWire EXCEPT !.kind = "grpc", !.src = p,
                                 !.st = GRPCStatus(mem, heap[p])]

DoGRPCStatusPanic ==
  /\ Len(heap) < MaxWireHeap
  /\ \E p \in Live :
       /\ GRPCStatusPanics(mem, heap[p])
       /\ Read("GRPCStatus", p)
       /\ wire' = [NoWire EXCEPT !.kind = "panic", !.src = p]

\* A status arrives from a peer.
DoReceiveStatus ==
  /\ Len(heap) < MaxWireHeap
  /\ wire.kind = "none"
  /\ \E st \in ForeignStatuses :
       wire' = [NoWire EXCEPT !.kind = "grpc", !.st = st]
  /\ UNCHANGED <<heap, mem, snap, last, vc, adds>>

DoFromGRPCStatus ==
  /\ Len(heap) < MaxWireHeap
  /\ wire.kind = "grpc"
  /\ Return(FromGRPCStatus(heap, mem, wire.st), "FromGRPCStatus", 0, <<>>)
  /\ UNCHANGED <<wire, vc, adds>>

DoFromGRPCStatusWithDetails ==
  /\ Len(heap) < MaxWireHeap
  /\ wire.kind = "grpc"
  /\ Return(FromGRPCStatusWithDetails(heap, mem, wire.st),
            "FromGRPCStatusWithDetails", 0, <<>>)
  /\ UNCHANGED <<wire, vc, adds>>

NextGRPC ==
  \/ DoGRPCStatus
  \/ DoGRPCStatusPanic
  \/ DoReceiveStatus
  \/ DoFromGRPCStatus
  \/ DoFromGRPCStatusWithDetails

SpecGRPC == InitGRPC /\ [][NextGRPC]_vars

(***************************************************************************)
(* Properties.                                                             *)
(***************************************************************************)

\* C1: a mutator leaves its receiver as it was: after the call every
\* accessor of the receiver (Code, GetMessage, GetDetail, Error, PublicError,
\* GetValidationErrors, GetStackTrace, Unwrap, the wrapped causes) returns
\* what it returned before the call.
C1_MutatorLeavesReceiver ==
  last.op \in Mutators => View(mem, heap[last.recv]) = last.before

\* C1 witness: WithValidationErrors appended in place into the spare
\* capacity of its receiver's array, which the receiver still shares with
\* the result.
C1_Witness ==
  /\ last.op = "WithValidationErrors"
  /\ Len(last.arg) > 0
  /\ last.res # last.recv
  /\ heap[last.recv].ValidationErrors.cap > 0
  /\ heap[last.res].ValidationErrors.arr = heap[last.recv].ValidationErrors.arr
  /\ View(mem, heap[last.res]) # last.before

\* C2: values never share sequence storage: the validation failures and
\* the wrapped causes of every value stay what they were when the value was
\* returned (for the result of v.WithValidationErrors(A): v's failures
\* followed by A), whatever is later derived from v or from the value.
C2_NoSharedStorage ==
  \A p \in Live :
    /\ GetValidationErrors(mem, heap[p]) = snap[p].ValidationErrors
    /\ GetWrapped(mem, heap[p]) = snap[p].Wrapped

\* C3: WithValidationErrors with a non-empty list, and WithValidationError,
\* return a value of code VALIDATION whose failures are the receiver's
\* followed by the added ones, in order.
C3_ValidationForcesCode ==
  (last.op \in {"WithValidationErrors", "WithValidationError"} /\ Len(last.arg) > 0)
    => /\ Code(heap[last.res]) = CodeValidation
       /\ GetValidationErrors(mem, heap[last.res]) = last.before.ValidationErrors \o last.arg

\* C3 witness: a value of code NOT_FOUND got a failure, and the result got
\* a list of two more.
C3_Witness ==
  /\ Len(heap) = 3
  /\ snap[1].Code = CodeNotFound
  /\ last.op = "WithValidationErrors"
  /\ last.recv = 2
  /\ Len(last.before.ValidationErrors) = 1
  /\ Len(last.arg) = 2
  /\ Len(GetValidationErrors(mem, heap[3])) = 3

\* C4: a value that holds validation failures has code VALIDATION,
\* whichever constructor, mutator or wire reconstruction made it.
C4_FailuresImplyValidation ==
  \A p \in Live :
    Len(GetValidationErrors(mem, heap[p])) > 0 => Code(heap[p]) = CodeValidation

\* C5: PublicError returns the public-message override when it is not
\* empty, else the registry's message for the code, else (code outside the
\* registry) the registry's message for UNKNOWN, and never the empty string.
C5_PublicErrorTotal ==
  \A p \in Live :
    LET e == heap[p]
        r == snap[p].PublicError
    IN /\ r # ""
       /\ e.PublicMessage # "" => r = e.PublicMessage
       /\ (e.PublicMessage = "" /\ e.ErrCode \in RegistryCodes)
            => r = defaultPublicMessages[e.ErrCode]
       /\ (e.PublicMessage = "" /\ e.ErrCode \notin RegistryCodes)
            => r = defaultPublicMessages[CodeUnknown]

\* C5 witness: a value whose code is outside the registry and whose
\* override is empty.
C5_Witness ==
  \E p \in Live :
    /\ heap[p].ErrCode \notin RegistryCodes
    /\ heap[p].PublicMessage = ""
    /\ snap[p].PublicError = "An unexpected error occurred"

\* The status the HTTP table gives a code.
HTTPTable(c) ==
  CASE c = "INVALID_INPUT" -> 400
    [] c = "VALIDATION" -> 400
    [] c = "NOT_FOUND" -> 404
    [] c = "ALREADY_EXISTS" -> 409
    [] c = "PERMISSION_DENIED" -> 403
    [] c = "UNAUTHENTICATED" -> 401
    [] c = "INTERNAL" -> 500
    [] c = "UNAVAILABLE" -> 503
    [] c = "TIMEOUT" -> 408
    [] c = "RESOURCE_EXHAUSTED" -> 429
    [] OTHER -> 500

\* C6: HTTPStatus answers every code, by the table, with 500 for UNKNOWN
\* and for a code outside the registry.
C6_HTTPStatusTable ==
  last.op = "HTTPStatus"
    => /\ wire.kind = "http"
       /\ wire.src = last.recv
       /\ wire.status = HTTPTable(Code(heap[last.recv]))

\* C6 witness: HTTPStatus of a value whose code is outside the registry.
C6_Witness ==
  /\ last.op = "HTTPStatus"
  /\ Code(heap[last.recv]) \notin RegistryCodes
  /\ wire.status = 500

\* The code the inverse HTTP table gives a status.
HTTPInverseTable(status) ==
  CASE status = 400 -> "INVALID_INPUT"
    [] status = 404 -> "NOT_FOUND"
    [] status = 409 -> "ALREADY_EXISTS"
    [] status = 403 -> "PERMISSION_DENIED"
    [] status = 401 -> "UNAUTHENTICATED"
    [] status = 503 -> "UNAVAILABLE"
    [] status = 408 -> "TIMEOUT"
    [] status = 429 -> "RESOURCE_EXHAUSTED"
    [] status = 500 -> "INTERNAL"
    [] OTHER -> "UNKNOWN"

\* C7: FromHTTPStatus gives every status the code of the inverse table,
\* and UNKNOWN to a status the table does not name.
C7_FromHTTPStatusTable ==
  last.op = "FromHTTPStatus"
    => Code(heap[last.res]) = HTTPInverseTable(wire.status)

\* The codes the HTTP table names.
HTTPTableCodes == RegistryCodes \ {CodeUnknown}

\* C8: the code of a value survives HTTPStatus followed by FromHTTPStatus
\* for every code of the HTTP table, VALIDATION coming back as
\* INVALID_INPUT.
C8_HTTPRoundTrip ==
  (last.op = "FromHTTPStatus" /\ wire.src # 0 /\ Code(heap[wire.src]) \in HTTPTableCodes)
    => Code(heap[last.res]) =
         IF Code(heap[wire.src]) = CodeValidation THEN CodeInvalidInput
         ELSE Code(heap[wire.src])

\* C8 witness: the status of a VALIDATION value came back as INVALID_INPUT.
C8_Witness ==
  /\ last.op = "FromHTTPStatus"
  /\ wire.src # 0
  /\ wire.status = 400
  /\ Code(heap[wire.src]) = CodeValidation
  /\ Code(heap[last.res]) = CodeInvalidInput

\* The RPC status code the table gives a code.
GRPCTable(c) ==
  CASE c = "INVALID_INPUT" -> "InvalidArgument"
    [] c = "VALIDATION" -> "InvalidArgument"
    [] c = "NOT_FOUND" -> "NotFound"
    [] c = "ALREADY_EXISTS" -> "AlreadyExists"
    [] c = "PERMISSION_DENIED" -> "PermissionDenied"
    [] c = "UNAUTHENTICATED" -> "Unauthenticated"
    [] c = "INTERNAL" -> "Internal"
    [] c = "UNAVAILABLE" -> "Unavailable"
    [] c = "TIMEOUT" -> "DeadlineExceeded"
    [] c = "RESOURCE_EXHAUSTED" -> "ResourceExhausted"
    [] OTHER -> "Unknown"

\* C9: the status GRPCStatus returns has the RPC code the table gives the
\* value's code, Unknown for every code the table does not name.
C9_GRPCStatusTable ==
  (last.op = "GRPCStatus" /\ wire.kind = "grpc")
    => /\ wire.src = last.recv
       /\ wire.st.code = GRPCTable(Code(heap[last.recv]))

\* C9 witness: GRPCStatus of a TIMEOUT value returned DeadlineExceeded.
C9_Witness ==
  /\ last.op = "GRPCStatus"
  /\ wire.kind = "grpc"
  /\ Code(heap[last.recv]) = CodeTimeout
  /\ wire.st.code = "DeadlineExceeded"

\* C10: when FromGRPCStatusWithDetails decodes the status GRPCStatus
\* returned for a value, the code is the value's code for every registry
\* code but INVALID_INPUT, VALIDATION for INVALID_INPUT, and UNKNOWN for a
\* code outside the registry.
C10_GRPCRoundTripCode ==
  (last.op = "FromGRPCStatusWithDetails" /\ wire.src # 0)
    => LET c == Code(heap[wire.src])
       IN Code(heap[last.res]) =
            IF c \notin RegistryCodes THEN CodeUnknown
            ELSE IF c = CodeInvalidInput THEN CodeValidation
            ELSE c

\* C10 witness: an INVALID_INPUT value came back as VALIDATION.
C10_Witness ==
  /\ last.op = "FromGRPCStatusWithDetails"
  /\ wire.src # 0
  /\ Code(heap[wire.src]) = CodeInvalidInput
  /\ Code(heap[last.res]) = CodeValidation

\* What a validation failure is after the wire: its field and message, the
\* opaque value absent.
OverTheWire(ves) ==
  [i \in 1..Len(ves) |-> [Field |-> ves[i].Field, Message |-> ves[i].Message, Value |-> "nil"]]

\* C11 (as stated): for every value v, the value FromGRPCStatusWithDetails
\* decodes from v.GRPCStatus() has v's validation failures, same length and
\* order, each with the same field and message and with the value absent.
C11_GRPCRoundTripFailuresAlways ==
  (last.op = "FromGRPCStatusWithDetails" /\ wire.src # 0)
    => GetValidationErrors(mem, heap[last.res])
         = OverTheWire(GetValidationErrors(mem, heap[wire.src]))

\* C11 (amended): the same, for every value v whose detail blocks attach to
\* the status; when they do not, the decoded value has no failures.
C11_GRPCRoundTripFailures ==
  (last.op = "FromGRPCStatusWithDetails" /\ wire.src # 0)
    => GetValidationErrors(mem, heap[last.res])
         = IF WithDetailsFails(GRPCDetails(mem, heap[wire.src])) THEN <<>>
           ELSE OverTheWire(GetValidationErrors(mem, heap[wire.src]))

\* C11 witness: two failures, the second with a value, came back in order
\* with the value absent.
C11_Witness ==
  /\ last.op = "FromGRPCStatusWithDetails"
  /\ wire.src # 0
  /\ GetValidationErrors(mem, heap[wire.src]) = <<EmailRequired, AgeTooLow>>
  /\ GetValidationErrors(mem, heap[last.res])
       = <<EmailRequired, [Field |-> "age", Message |-> "must be >= 18", Value |-> "nil"]>>

\* C12: GRPCStatus returns a status for every value, a nil cause included;
\* when the detail blocks do not attach, the status carries the mapped code
\* and the public message only.
C12_GRPCStatusNeverFails ==
  last.op = "GRPCStatus"
    => /\ wire.kind = "grpc"
       /\ WithDetailsFails(GRPCDetails(mem, heap[last.recv]))
            => wire.st = StatusNew(GRPCTable(Code(heap[last.recv])),
                                   PublicError(heap[last.recv]))

\* What a client reads in an envelope: the slices by their elements.
Shown(m, env) ==
  [env EXCEPT !.Error = [Code |-> @.Code, Message |-> @.Message, Detail |-> @.Detail,
                         ValidationErrors |-> Elems(m, @.ValidationErrors),
                         StackTrace |-> Elems(m, @.StackTrace),
                         Metadata |-> @.Metadata, nil |-> @.nil]]

\* Two values agree on what is public: code, public-message override,
\* validation failures and wrapped causes.
SamePublic(m, e1, e2) ==
  /\ e1.ErrCode = e2.ErrCode
  /\ e1.PublicMessage = e2.PublicMessage
  /\ GetValidationErrors(m, e1) = GetValidationErrors(m, e2)
  /\ GetWrapped(m, e1) = GetWrapped(m, e2)

\* C13: default outputs do not depend on internal diagnostics: two values
\* that agree on code, override, failures and causes, whatever their
\* message, detail and frames, get the same envelope from ToHTTPResponse
\* with nil options (at the same time) and the same status from GRPCStatus.
C13_DefaultOutputsHideDiagnostics ==
  \A p \in Live, q \in Live :
    SamePublic(mem, heap[p], heap[q])
      => /\ \A now \in Times :
              Shown(mem, ToHTTPResponse(heap[p], NilOptions, now))
                = Shown(mem, ToHTTPResponse(heap[q], NilOptions, now))
         /\ ~GRPCStatusPanics(mem, heap[p])
              => GRPCStatus(mem, heap[p]) = GRPCStatus(mem, heap[q])

\* C14: whatever the options, the message field of the error block that
\* ToHTTPResponse builds is the value's PublicError().
C14_EnvelopeMessageIsPublic ==
  last.op = "ToHTTPResponse"
    => /\ ~wire.env.Error.nil
       /\ wire.env.Error.Message = PublicError(heap[last.recv])

\* C15: the error block of the envelope has stack frames exactly when the
\* options are not nil, IncludeStackTrace is set and the value has a frame;
\* with nil options or DefaultHTTPOptions it has none.
C15_StackTraceOnlyOnOptIn ==
  last.op = "ToHTTPResponse"
    => LET shown == Elems(mem, wire.env.Error.StackTrace)
           frames == GetStackTrace(mem, heap[last.recv])
       IN /\ Len(shown) > 0
               <=> (~wire.opts.nil /\ wire.opts.IncludeStackTrace /\ Len(frames) > 0)
          /\ Len(shown) > 0 => shown = frames
          /\ wire.opts \in {NilOptions, DefaultHTTPOptions} => Len(shown) = 0

\* C15 witness: a value with two frames projected with IncludeStackTrace
\* set shows them, and the same value projected with nil options would not.
C15_Witness ==
  /\ last.op = "ToHTTPResponse"
  /\ wire.opts.IncludeStackTrace
  /\ Elems(mem, wire.env.Error.StackTrace) = <<FrameRun, FrameGet>>
  /\ ToHTTPResponse(heap[last.recv], NilOptions, wire.env.Timestamp).Error.StackTrace
       = NilSlice

\* C19: for every status and message, the value FromHTTPStatus returns has
\* no validation failure, no stack frame and no wrapped cause, and its
\* internal message is the message given.
C19_FromHTTPStatusFresh ==
  last.op = "FromHTTPStatus"
    => LET e == heap[last.res]
       IN /\ GetValidationErrors(mem, e) = <<>>
          /\ GetStackTrace(mem, e) = <<>>
          /\ GetWrapped(mem, e) = <<>>
          /\ Unwrap(mem, e) = NilError
          /\ GetMessage(e) = last.arg[1]

\* C20: whatever a handler panicked with, the error value a recovery
\* adapter hands to the projection has code INTERNAL and the response
\* status is 500.
C20_RecoveredIsInternal ==
  last.op \in {"HTTPMiddleware", "RecoverMiddleware"}
    => /\ wire.kind = "recovered"
       /\ wire.src = last.res
       /\ Code(heap[last.res]) = CodeInternal
       /\ wire.env.Error.Code = CodeInternal
       /\ wire.status = 500

\* C17: Unwrap returns the first cause added and no other: the cause given
\* to Wrap, or to the first WithWrapped, however many WithWrapped follow;
\* for a value with no wrapped cause it returns nil.
C17_UnwrapIsFirstCause ==
  /\ \A p \in Live :
       Unwrap(mem, heap[p]) = IF GetWrapped(mem, heap[p]) = <<>> THEN NilError
                              ELSE Head(snap[p].Wrapped)
  /\ last.op = "Wrap" => Unwrap(mem, heap[last.res]) = last.arg[1]
  /\ last.op = "WithWrapped"
       => /\ Unwrap(mem, heap[last.res]) =
               IF last.before.Wrapped = <<>> THEN last.arg[1] ELSE last.before.Unwrap
          /\ GetWrapped(mem, heap[last.res]) = last.before.Wrapped \o last.arg

\* C17 witness: Wrap(EOF), then WithWrapped(timeout), then WithWrapped(nil):
\* Unwrap of the last value is still EOF.
C17_Witness ==
  /\ Len(heap) = 3
  /\ last.op = "WithWrapped"
  /\ last.res = 3
  /\ GetWrapped(mem, heap[3]) = <<ErrEOF, ErrTimeout, NilError>>
  /\ Unwrap(mem, heap[3]) = ErrEOF

\* C18: WithStackTrace overwrites: the frames of its result are those of
\* the capture it made, none of the receiver's, and no more than one
\* capture holds.
C18_WithStackTraceOverwrites ==
  last.op = "WithStackTrace"
    => /\ GetStackTrace(mem, heap[last.res]) = last.arg
       /\ Len(GetStackTrace(mem, heap[last.res])) <= MaxFrames

\* C18 witness: v.WithStackTrace().WithStackTrace() where the first capture
\* held two frames of Run and the second one frame of Get.
C18_Witness ==
  /\ Len(heap) = 3
  /\ snap[1].StackTrace = <<>>
  /\ snap[2].StackTrace = <<FrameRun, FrameRun>>
  /\ last.op = "WithStackTrace"
  /\ last.recv = 2
  /\ last.arg = <<FrameGet>>
  /\ GetStackTrace(mem, heap[3]) = <<FrameGet>>

\* C16: after n Add calls on a fresh collector HasErrors() is true exactly
\* when n > 0, and Error() returns nil when n = 0 and otherwise one value of
\* code VALIDATION with the message "validation failed" and the n failures
\* added (field, message, value), in the order they were added.
C16_CollectorFinalization ==
  /\ last.op = "HasErrors" => last.arg[1] = (Len(vc.added) > 0)
  /\ last.op = "CollectorError"
       => IF Len(vc.added) = 0 THEN last.res = 0
          ELSE /\ last.res \in Live
               /\ Code(heap[last.res]) = CodeValidation
               /\ GetMessage(heap[last.res]) = "validation failed"
               /\ GetValidationErrors(mem, heap[last.res]) = vc.added

\* C16 witness: Add(age), Add(email), Add(age), then Error() returned a
\* value with the three failures in that order.
C16_Witness ==
  /\ last.op = "CollectorError"
  /\ vc.added = <<AgeTooLow, EmailRequired, AgeTooLow>>
  /\ last.res \in Live
  /\ GetValidationErrors(mem, heap[last.res]) = <<AgeTooLow, EmailRequired, AgeTooLow>>

\* C21 (as stated): every envelope of ToHTTPResponse or
\* CreateSuccessResponse sets exactly one of the error block and the data
\* payload: ToHTTPResponse success = false, an error block and no data;
\* CreateSuccessResponse success = true, data and no error block.
C21_ExactlyOneOfErrorAndData ==
  last.op \in {"ToHTTPResponse", "CreateSuccessResponse"}
    => /\ (~wire.env.Error.nil) # (wire.env.Data # NoData)
       /\ wire.env.Success = (wire.env.Data # NoData)

\* C21 (amended): no envelope sets both: ToHTTPResponse gives
\* success = false, an error block and no data; CreateSuccessResponse gives
\* success = true, no error block and the data it was given, none when
\* that is nil.
C21_NeverBothErrorAndData ==
  /\ last.op = "ToHTTPResponse"
       => /\ ~wire.env.Success
          /\ ~wire.env.Error.nil
          /\ wire.env.Data = NoData
  /\ last.op = "CreateSuccessResponse"
       => /\ wire.env.Success
          /\ wire.env.Error.nil
          /\ wire.env.Data = last.arg[1]

\* C21 witness: a success response with a payload, every option set.
C21_Witness ==
  /\ last.op = "CreateSuccessResponse"
  /\ wire.env.Success
  /\ wire.env.Error.nil
  /\ wire.env.Data = "user 7"
  /\ wire.env.Meta = [nil |-> FALSE, Version |-> "v1"]
  /\ wire.env.TraceID = "trace-1"

\* The kinds of block, in the fixed order, and whether a value has the
\* source of each.
BlockOrder == <<"BadRequest", "ErrorInfo", "DebugInfo", "Help">>

HasSource(m, e, kind) ==
  CASE kind = "BadRequest" -> Len(GetValidationErrors(m, e)) > 0
    [] kind = "ErrorInfo" -> GetDetail(e) # "" \/ GetMessage(e) # ""
    [] kind = "DebugInfo" -> Len(GetStackTrace(m, e)) > 0
    [] kind = "Help" -> Len(GetWrapped(m, e)) > 0

\* The kinds of the blocks of a status, in order.
Kinds(details) == [i \in 1..Len(details) |-> details[i].type]

\* The blocks are in the fixed order, one of a kind at most, and a kind is
\* there exactly when the value has its source.
BlocksAsSources(m, e, details) ==
  /\ \A i \in 1..Len(details), j \in 1..Len(details) :
       i < j => \E a \in 1..4, b \in 1..4 :
                  a < b /\ BlockOrder[a] = details[i].type /\ BlockOrder[b] = details[j].type
  /\ \A k \in 1..4 :
       HasSource(m, e, BlockOrder[k]) <=> \E i \in 1..Len(details) : details[i].type = BlockOrder[k]
  /\ \A i \in 1..Len(details) :
       details[i].type = "ErrorInfo"
         => /\ details[i].Reason = Code(e)
            /\ details[i].Metadata = [detail |-> GetDetail(e), message |-> GetMessage(e)]

\* C22 (as stated): the status GRPCStatus returns has its detail blocks in
\* the order field violations, info, debug, links, each attached exactly
\* when its source is not empty (the info block with reason = code and the
\* metadata detail and message); a value with no source has no details.
C22_DetailBlocksAlways ==
  (last.op = "GRPCStatus" /\ wire.kind = "grpc")
    => BlocksAsSources(mem, heap[last.recv], wire.st.details)

\* C22 (amended): the same whenever the blocks attach; when attaching
\* them fails the status has no details.
C22_DetailBlocks ==
  (last.op = "GRPCStatus" /\ wire.kind = "grpc")
    => IF WithDetailsFails(GRPCDetails(mem, heap[last.recv]))
       THEN wire.st.details = <<>>
       ELSE BlocksAsSources(mem, heap[last.recv], wire.st.details)

\* C22 witness: a value with failures, detail, frames and causes got the
\* four blocks in order.
C22_Witness ==
  /\ last.op = "GRPCStatus"
  /\ wire.kind = "grpc"
  /\ Kinds(wire.st.details) = BlockOrder
  /\ GetDetail(heap[last.recv]) = "row 7"

\* What is left of causes after the wire: string-only errors of the same
\* Error() texts.
StringOnly(causes) ==
  [i \in 1..Len(causes) |-> [type |-> "errors.errorString", text |-> causes[i].text]]

\* C23 (as stated): for every value v whose wrapped causes are all non-nil,
\* the value decoded from v.GRPCStatus() has as many causes, in the same
\* order, each a string-only error with the Error() text of v's cause, and
\* its Unwrap has the text of v's first cause.
C23_GRPCRoundTripCausesAlways ==
  (last.op = "FromGRPCStatusWithDetails" /\ wire.src # 0)
    => /\ GetWrapped(mem, heap[last.res]) = StringOnly(GetWrapped(mem, heap[wire.src]))
       /\ Unwrap(mem, heap[last.res]).text = Unwrap(mem, heap[wire.src]).text

\* C23 (amended): the same, for every such v whose detail blocks attach to
\* the status; when they do not, the decoded value has no causes.
C23_GRPCRoundTripCauses ==
  (last.op = "FromGRPCStatusWithDetails" /\ wire.src # 0)
    => IF WithDetailsFails(GRPCDetails(mem, heap[wire.src]))
       THEN /\ GetWrapped(mem, heap[last.res]) = <<>>
            /\ Unwrap(mem, heap[last.res]) = NilError
       ELSE /\ GetWrapped(mem, heap[last.res]) = StringOnly(GetWrapped(mem, heap[wire.src]))
            /\ Unwrap(mem, heap[last.res]).text = Unwrap(mem, heap[wire.src]).text

\* C23 witness: the causes EOF and timeout came back as two string-only
\* errors in that order.
C23_Witness ==
  /\ last.op = "FromGRPCStatusWithDetails"
  /\ wire.src # 0
  /\ GetWrapped(mem, heap[wire.src]) = <<ErrEOF, ErrTimeout>>
  /\ GetWrapped(mem, heap[last.res]) =
       <<[type |-> "errors.errorString", text |-> "EOF"],
         [type |-> "errors.errorString", text |-> "timeout"]>>
  /\ Unwrap(mem, heap[last.res]).text = "EOF"

\* The place of the first ch in s, 0 when there is none.
IndexOf(s, ch) ==
  IF \E i \in 1..Len(s) : s[i] = ch
  THEN CHOOSE i \in 1..Len(s) : s[i] = ch /\ \A j \in 1..(i - 1) : s[j] # ch
  ELSE 0

\* An entry read as `file:line function`, cut at its first space and then
\* at the first colon before it: no frame when either is missing.
EntryByShape(entry) ==
  LET sp == IndexOf(entry, " ")
      fileLine == SubSeq(entry, 1, sp - 1)
      co == IndexOf(fileLine, ":")
  IN IF sp = 0 \/ co = 0 THEN <<>>
     ELSE <<[Function |-> SubSeq(entry, sp + 1, Len(entry)),
             File |-> SubSeq(fileLine, 1, co - 1),
             Line |-> parseInt(SubSeq(fileLine, co + 1, Len(fileLine)))]>>

RECURSIVE EntriesByShape(_)
EntriesByShape(entries) ==
  IF Len(entries) = 0 THEN <<>>
  ELSE EntryByShape(Head(entries)) \o EntriesByShape(Tail(entries))

\* The frames of the debug blocks of a status, read by shape.
RECURSIVE FramesByShape(_)
FramesByShape(details) ==
  IF Len(details) = 0 THEN <<>>
  ELSE (IF Head(details).type = "DebugInfo"
        THEN EntriesByShape(Head(details).StackEntries) ELSE <<>>)
       \o FramesByShape(Tail(details))

\* C24: FromGRPCStatusWithDetails reads every debug entry at its first
\* space and first colon (file before the colon, line the number after it,
\* function all the text after the first space) and drops an entry with no
\* space or no colon before it; every frame GRPCStatus encoded comes back
\* unchanged and in order.
C24_DebugEntriesParsed ==
  last.op = "FromGRPCStatusWithDetails"
    => /\ GetStackTrace(mem, heap[last.res]) = FramesByShape(wire.st.details)
       /\ (wire.src # 0 /\ \E i \in 1..Len(wire.st.details) :
                               wire.st.details[i].type = "DebugInfo")
            => GetStackTrace(mem, heap[last.res]) = GetStackTrace(mem, heap[wire.src])

\* The info blocks of a status.
InfoBlocks(details) == {i \in 1..Len(details) : details[i].type = "ErrorInfo"}

\* The detail and the internal message decoded from a status: the detail
\* of its info block, and its own message unless that is empty.
InfoDecoded(st, e) ==
  /\ \A i \in InfoBlocks(st.details) : GetDetail(e) = st.details[i].Metadata["detail"]
  /\ InfoBlocks(st.details) = {} => GetDetail(e) = ""
  /\ st.message # "" => GetMessage(e) = st.message
  /\ st.message = ""
       => /\ \A i \in InfoBlocks(st.details) : GetMessage(e) = st.details[i].Metadata["message"]
          /\ InfoBlocks(st.details) = {} => GetMessage(e) = ""

\* C25 (as stated): the decoded detail is the metadata detail of the info
\* block whenever there is one, the decoded internal message is the
\* status's own message, or the metadata message when the status's is
\* empty; and the detail of every value survives the round trip.
C25_InfoDecodingAlways ==
  last.op = "FromGRPCStatusWithDetails"
    => /\ InfoDecoded(wire.st, heap[last.res])
       /\ wire.src # 0 => GetDetail(heap[last.res]) = GetDetail(heap[wire.src])

\* C25 (amended): the same decoding; the detail of a value survives the
\* round trip when its detail blocks attach, and is empty when they do not.
C25_InfoDecoding ==
  last.op = "FromGRPCStatusWithDetails"
    => /\ InfoDecoded(wire.st, heap[last.res])
       /\ wire.src # 0
            => GetDetail(heap[last.res]) =
                 IF WithDetailsFails(GRPCDetails(mem, heap[wire.src])) THEN ""
                 ELSE GetDetail(heap[wire.src])

\* C25 witness: a value with detail "row 7" and internal message "boom"
\* came back with its detail and with the status's message as its message.
C25_Witness ==
  /\ last.op = "FromGRPCStatusWithDetails"
  /\ wire.src # 0
  /\ GetDetail(heap[wire.src]) = "row 7"
  /\ GetMessage(heap[wire.src]) = "boom"
  /\ GetDetail(heap[last.res]) = "row 7"
  /\ GetMessage(heap[last.res]) = wire.st.message
  /\ GetMessage(heap[last.res]) # "boom"

\* C25 witness of the other branch: a status with an empty message gave
\* the metadata message.
C25_WitnessEmptyStatusMessage ==
  /\ last.op = "FromGRPCStatusWithDetails"
  /\ wire.st.message = ""
  /\ GetMessage(heap[last.res]) = "boom"

\* C26: with two workers' Adds interleaved a lost append is reachable (the
\* witness below); as long as no Add began while another was under way,
\* the collector holds the failures of the completed Adds, one for each;
\* it never holds more failures than Adds have completed.
C26_SequentialAddsCounted ==
  /\ ~adds.overlapped
       => /\ vc.errors.len = Len(vc.added)
          /\ Elems(mem, vc.errors) = vc.added
  /\ vc.errors.len <= Len(vc.added)

\* C26 witness: two Adds have completed, no Add is under way, and the
\* collector holds one failure.
C26_Witness ==
  /\ Busy = {}
  /\ adds.overlapped
  /\ Len(vc.added) = 2
  /\ vc.errors.len = 1

\* C27: a value returned by the collector's Error() keeps the failures it
\* had when it was returned, whatever Adds follow, and an Error() call
\* returns a value with all the failures added so far.
C27_CollectorErrorIsolated ==
  /\ \A p \in Live : GetValidationErrors(mem, heap[p]) = snap[p].ValidationErrors
  /\ (last.op = "CollectorError" /\ last.res # 0)
       => /\ GetValidationErrors(mem, heap[last.res]) = vc.added
          /\ snap[last.res].ValidationErrors = vc.added

\* C27 witness: Error() after three Adds, a fourth Add written into the
\* array the first value shares, and Error() again: the first value has
\* three failures, the second all four, over the same array.
C27_Witness ==
  /\ last.op = "CollectorError"
  /\ Len(heap) = 2
  /\ last.res = 2
  /\ heap[1].ValidationErrors.arr = heap[2].ValidationErrors.arr
  /\ Len(GetValidationErrors(mem, heap[1])) = 3
  /\ GetValidationErrors(mem, heap[1]) = SubSeq(vc.added, 1, 3)
  /\ GetValidationErrors(mem, heap[2]) = vc.added
  /\ Len(vc.added) = 4

\* C28: WithValidationErrors with an empty list returns a value of code
\* VALIDATION with the failures of the receiver, whatever the receiver's
\* code: a value may have code VALIDATION and no failure.
C28_EmptyListForcesValidation ==
  (last.op = "WithValidationErrors" /\ last.arg = <<>>)
    => /\ Code(heap[last.res]) = CodeValidation
       /\ GetValidationErrors(mem, heap[last.res]) = last.before.ValidationErrors
       /\ GetValidationErrors(mem, heap[last.res]) = GetValidationErrors(mem, heap[last.recv])

\* C28 witness: a value of code NOT_FOUND with no failure gave a value of
\* code VALIDATION with no failure.
C28_Witness ==
  /\ last.op = "WithValidationErrors"
  /\ last.arg = <<>>
  /\ last.before.Code = CodeNotFound
  /\ last.before.ValidationErrors = <<>>
  /\ Code(heap[last.res]) = CodeValidation
  /\ GetValidationErrors(mem, heap[last.res]) = <<>>

=============================================================================
